---------------------------- MODULE Spec2Model ----------------------------
(***************************************************************************)
(* Model of src/app.py, the Streamlit "Pairs Trading Profit Simulator".    *)
(*                                                                         *)
(* The script is re-executed from top to bottom on every widget change.    *)
(* What survives between executions is the st.cache_data cache of          *)
(* load_data() and the values of the three sidebar widgets.  Each action   *)
(* below is one complete execution of the script.                          *)
(*                                                                         *)
(* Representation.                                                         *)
(*  - A DataFrame is [columns, index, rows]: the set of column labels, the *)
(*    sequence of index labels and the sequence of rows (functions from    *)
(*    column label to cell).                                               *)
(*  - A missing cell is NaN; pandas comparison with NaN is always false    *)
(*    and string addition with NaN gives NaN.                              *)
(*  - Net Return is a fixed-point number: the cell n stands for n/Scale.   *)
(*    Money derived from it (Equity, Trade Profit, the metrics) is kept in *)
(*    units of 1/Scale, so all arithmetic is exact; IEEE rounding is not   *)
(*    modelled.                                                            *)
(*  - Dates are day numbers; no computation reads them.                    *)
(*  - The CSV is assumed present, with columns Stock1, Stock2, Net Return  *)
(*    and "Exit Date" and a numeric Net Return in every row; pair_id is    *)
(*    optional.                                                            *)
(***************************************************************************)
EXTENDS Integers, Sequences, FiniteSets, TLC

\* ---------------------------------------------------------------- bounds
MaxRows == 3
Scale == 100

\* ------------------------------------------------------ program constants
min_value == 1000
value == 100000
step == 5000

NaN == "NaN"
All == "All"

\* -------------------------------------------------------- input universe
\* Trade rows a CSV without pair_id may hold: <<Stock1, Stock2, Net Return>>.
\* An empty Stock2 cell is read as NaN.
DerivedTrades ==
    {<<"A", "C", -2>>, <<"A", "C", 0>>, <<"A", "C", 5>>,
     <<"B", "C", 5>>, <<"B", NaN, 5>>}

\* Trade rows a CSV with pair_id may hold:
\* <<pair_id, Stock1, Stock2, Net Return>>.
NativeTrades ==
    {<<"P", "A", "C", -2>>, <<"P", "A", "C", 0>>, <<"P", "A", "C", 5>>,
     <<"P", "B", "C", 5>>, <<"Q", "B", "C", -2>>}

Stocks == {"A", "B", "C", NaN}
PairChoices == {"P", "Q", "A - C", "B - C", NaN}
Investments == {min_value, value, value + step}

\* ------------------------------------------------------- pandas helpers
Front(s) == SubSeq(s, 1, Len(s) - 1)
Last(s) == s[Len(s)]

RangeIndex(n) == [i \in 1..n |-> i - 1]

EmptyFrame == [columns |-> {}, index |-> <<>>, rows |-> <<>>]

Column(df, c) == [i \in 1..Len(df.rows) |-> df.rows[i][c]]

\* df[c] = vals
SetColumn(df, c, vals) ==
    [columns |-> df.columns \cup {c},
     index |-> df.index,
     rows |-> [i \in 1..Len(df.rows) |->
                 [k \in df.columns \cup {c} |->
                     IF k = c THEN vals[i] ELSE df.rows[i][k]]]]

\* df.rename(columns={old: new})
Rename(df, old, new) ==
    LET cols == (df.columns \ {old}) \cup {new}
    IN [columns |-> cols,
        index |-> df.index,
        rows |-> [i \in 1..Len(df.rows) |->
                    [k \in cols |->
                        IF k = new THEN df.rows[i][old] ELSE df.rows[i][k]]]]

\* df[cols]
Project(df, cols) ==
    [columns |-> cols,
     index |-> df.index,
     rows |-> [i \in 1..Len(df.rows) |-> [k \in cols |-> df.rows[i][k]]]]

\* elementwise ==
Eq(a, b) == a # NaN /\ b # NaN /\ a = b

\* elementwise + on strings
StrAdd(a, b) == IF a = NaN \/ b = NaN THEN NaN ELSE a \o b

\* Series.unique(): distinct values in order of first appearance
RECURSIVE Unique(_)
Unique(s) ==
    IF Len(s) = 0 THEN <<>>
    ELSE LET u == Unique(Front(s))
         IN IF \E i \in 1..Len(u) : u[i] = Last(s) THEN u
            ELSE Append(u, Last(s))

\* positions of the true entries of a boolean mask, ascending
RECURSIVE TruePositions(_)
TruePositions(mask) ==
    IF Len(mask) = 0 THEN <<>>
    ELSE IF Last(mask) THEN Append(TruePositions(Front(mask)), Len(mask))
         ELSE TruePositions(Front(mask))

\* df[mask]: the rows where mask holds, with their index labels
BoolIndex(df, mask) ==
    LET pos == TruePositions(mask)
    IN [columns |-> df.columns,
        index |-> [k \in 1..Len(pos) |-> df.index[pos[k]]],
        rows |-> [k \in 1..Len(pos) |-> df.rows[pos[k]]]]

\* reset_index forgotten: the labels of the full table are kept
KeepIndex(df) == df

\* df.reset_index(drop=True)
ResetIndex(df) == [df EXCEPT !.index = RangeIndex(Len(df.rows))]

\* geometric compounding instead of the running sum
RECURSIVE CumProd(_)
CumProd(s) ==
    IF Len(s) = 0 THEN <<>>
    ELSE LET p == CumProd(Front(s))
             c == IF Len(p) = 0 THEN 0 ELSE Last(p)
         IN Append(p, c + Last(s) + (c * Last(s)) \div Scale)

\* Series.cumsum()
RECURSIVE CumSum(_)
CumSum(s) ==
    IF Len(s) = 0 THEN <<>>
    ELSE LET p == CumSum(Front(s))
         IN Append(p, (IF Len(p) = 0 THEN 0 ELSE Last(p)) + Last(s))

\* a sum that misses the first trade
RECURSIVE SumFromSecond(_)
SumFromSecond(s) ==
    IF Len(s) <= 1 THEN 0 ELSE Last(s) + SumFromSecond(Front(s))

\* Series.sum()
RECURSIVE SeriesSum(_)
SeriesSum(s) == IF Len(s) = 0 THEN 0 ELSE s[1] + SeriesSum(Tail(s))

\* (Series > 0).mean(), as the fraction num/den
RECURSIVE CountTrue(_)
CountTrue(mask) ==
    IF Len(mask) = 0 THEN 0
    ELSE (IF mask[1] THEN 1 ELSE 0) + CountTrue(Tail(mask))

\* a non-strict test: zero-return trades counted as wins
NonNegative(s) == [i \in 1..Len(s) |-> s[i] >= 0]

Positive(s) == [i \in 1..Len(s) |-> s[i] > 0]

Mean(mask) == [num |-> CountTrue(mask), den |-> Len(mask)]

\* ------------------------------------------------------------ the CSV
CsvRow(native, pid, s1, s2, nr) ==
    LET base == ("Stock1" :> s1) @@ ("Stock2" :> s2) @@ ("Net Return" :> nr)
                    @@ ("Exit Date" :> 0)
    IN IF native THEN base @@ ("pair_id" :> pid) ELSE base

NativeRows == {CsvRow(TRUE, t[1], t[2], t[3], t[4]) : t \in NativeTrades}
DerivedRows == {CsvRow(FALSE, NaN, t[1], t[2], t[3]) : t \in DerivedTrades}

CsvColumns(native) ==
    {"Stock1", "Stock2", "Net Return", "Exit Date"}
        \cup (IF native THEN {"pair_id"} ELSE {})

\* pd.read_csv("trade_df.csv"); row i is dated day i
ReadCsv(native, body) ==
    [columns |-> CsvColumns(native),
     index |-> RangeIndex(Len(body)),
     rows |-> [i \in 1..Len(body) |-> [body[i] EXCEPT !["Exit Date"] = i]]]

CsvFiles ==
    {ReadCsv(TRUE, b) : b \in UNION {[1..n -> NativeRows] : n \in 0..MaxRows}}
    \cup
    {ReadCsv(FALSE, b) : b \in UNION {[1..n -> DerivedRows] : n \in 0..MaxRows}}

\* --------------------------------------------------------- load_data()
load_data(file) ==
    LET dated == IF "Exit Date" \in file.columns
                 THEN Rename(file, "Exit Date", "Date")
                 ELSE IF "Entry Date" \in file.columns
                      THEN Rename(file, "Entry Date", "Date")
                      ELSE file
    IN IF "pair_id" \in dated.columns
       THEN Rename(dated, "pair_id", "Pair")
       ELSE dated

\* "Create 'Pair' column if it doesn't exist"
WithPair(df) ==
    IF "Pair" \in df.columns THEN df
    ELSE SetColumn(df, "Pair",
            [i \in 1..Len(df.rows) |->
                StrAdd(StrAdd(df.rows[i]["Stock1"], " - "),
                       df.rows[i]["Stock2"])])

\* ---------------------------------------------------- sidebar controls
all_stocks(df) == Unique(Column(df, "Stock1") \o Column(df, "Stock2"))

StockOptions(df) == <<All>> \o all_stocks(df)

\* the instrument filter ignored
UnfilteredPairs(df, filter) == Unique(Column(df, "Pair"))

filtered_pairs(df, filter) ==
    IF filter # All
    THEN Unique(Column(
            BoolIndex(df, [i \in 1..Len(df.rows) |->
                            \/ Eq(df.rows[i]["Stock1"], filter)
                            \/ Eq(df.rows[i]["Stock2"], filter)]),
            "Pair"))
    ELSE Unique(Column(df, "Pair"))

\* ---------------------------------------------------------- calculations
\* trade_df[trade_df["Pair"] == selected_pair].copy().reset_index(drop=True)
Select(df, pair) ==
    ResetIndex(BoolIndex(df, [i \in 1..Len(df.rows) |->
                                Eq(df.rows[i]["Pair"], pair)]))

\* the emptiness gate never taken
NeverEmpty(df) == FALSE

\* pair_data.empty
IsEmpty(df) == Len(df.rows) = 0

\* the principal left out of the equity
ProfitOnly(inv, cum) == inv * cum

\* initial_investment + (initial_investment * cumulative), in 1/Scale
Equity(inv, cum) == inv * Scale + inv * cum

\* initial_investment * net_return, in 1/Scale
TradeProfit(inv, nr) == inv * nr

Enrich(pd, inv) ==
    LET nr == Column(pd, "Net Return")
        cum == CumSum(nr)
        d1 == SetColumn(pd, "Cumulative Return", cum)
        d2 == SetColumn(d1, "Equity",
                        [i \in 1..Len(nr) |-> Equity(inv, cum[i])])
    IN SetColumn(d2, "Trade Profit",
                 [i \in 1..Len(nr) |-> TradeProfit(inv, nr[i])])

total_net_return_pct(pd) == SeriesSum(Column(pd, "Net Return"))

total_profit_value(inv, total) == inv * total

\* the final value computed as if the profit replaced the principal
ProfitAsEquity(inv, profit) == profit

final_equity(inv, profit) == inv * Scale + profit

win_rate(pd) == Mean(Positive(Column(pd, "Net Return")))

Metrics(pd, inv) ==
    LET total == total_net_return_pct(pd)
        profit == total_profit_value(inv, total)
    IN [total_net_return_pct |-> total,
        total_profit_value |-> profit,
        final_equity |-> final_equity(inv, profit),
        win_rate |-> win_rate(pd),
        total_trades |-> Len(pd.rows)]

NoMetrics == [k \in {} |-> 0]

\* the "Detailed Trade Log" frame
display_df_of(pd) ==
    LET d == Project(pd, {"Date", "Stock1", "Stock2", "Net Return",
                          "Trade Profit", "Equity"})
    IN [d EXCEPT !.index = [i \in 1..Len(@) |-> @[i] + 1]]

\* ------------------------------------------------------------- state
VARIABLES
    csv,                    \* trade_df.csv as read by pd.read_csv
    cache,                  \* st.cache_data entry of load_data()
    initial_investment,     \* number_input "Enter Investment Amount"
    selected_stock_filter,  \* selectbox "Filter by Stock (Optional)"
    selected_pair,          \* selectbox "Select Pair Strategy"
    status,                 \* how the last execution of the script ended
    pair_data,              \* the selected and enriched frame
    metrics,                \* the five headline numbers
    display_df,             \* the trade log frame
    rendered                \* elements on the page after the execution

vars == <<csv, cache, initial_investment, selected_stock_filter,
          selected_pair, status, pair_data, metrics, display_df, rendered>>

NoSelection == "<not rendered>"

\* Sections 3 and 4 of the script, entered with the selected frame
Calculations(pd, inv) ==
    LET enriched == Enrich(pd, inv)
    IN [status |-> "ok",
        pair_data |-> enriched,
        metrics |-> Metrics(enriched, inv),
        display_df |-> display_df_of(enriched),
        rendered |-> {"metrics", "equity_curve", "histogram", "trade_log"}]

Halted(why, message) ==
    [status |-> why,
     pair_data |-> EmptyFrame,
     metrics |-> NoMetrics,
     display_df |-> EmptyFrame,
     rendered |-> {message}]

\* Sections 2C and 3: the two gates, then the calculations
Script(trade_df, inv, filter, choice) ==
    IF Len(filtered_pairs(trade_df, filter)) = 0
    THEN Halted("NoPairs", "warning: No pairs found for the selected filters.")
            @@ [selected_pair |-> NoSelection]
    ELSE LET pd == Select(trade_df, choice)
         IN (IF IsEmpty(pd)
             THEN Halted("NoTrades", "warning: No trades found for this pair.")
             ELSE Calculations(pd, inv)) @@ [selected_pair |-> choice]

Execute(cached, inv, filter, choice) ==
    LET out == Script(WithPair(cached), inv, filter, choice)
    IN /\ cache' = cached
       /\ initial_investment' = inv
       /\ selected_stock_filter' = filter
       /\ selected_pair' = out.selected_pair
       /\ status' = out.status
       /\ pair_data' = out.pair_data
       /\ metrics' = out.metrics
       /\ display_df' = out.display_df
       /\ rendered' = out.rendered
       /\ UNCHANGED csv

Range(s) == {s[i] : i \in 1..Len(s)}

Init ==
    /\ csv \in CsvFiles
    /\ cache = EmptyFrame
    /\ initial_investment = value
    /\ selected_stock_filter = All
    /\ selected_pair = NoSelection
    /\ status = "init"
    /\ pair_data = EmptyFrame
    /\ metrics = NoMetrics
    /\ display_df = EmptyFrame
    /\ rendered = {}

\* first execution: load_data() runs and is cached, widgets take defaults
FirstRun ==
    /\ status = "init"
    /\ LET loaded == load_data(csv)
           options == filtered_pairs(WithPair(loaded), All)
       IN Execute(loaded, value, All,
                  IF Len(options) = 0 THEN NoSelection ELSE options[1])

\* results kept from the previous execution when only the amount changes
ChangeInvestmentStale(inv) ==
    /\ status # "init"
    /\ inv >= min_value
    /\ inv # initial_investment
    /\ initial_investment' = inv
    /\ UNCHANGED <<csv, cache, selected_stock_filter, selected_pair, status,
                   pair_data, metrics, display_df, rendered>>

\* the user edits the investment amount; the other widgets keep their value
ChangeInvestment(inv) ==
    /\ status # "init"
    /\ inv >= min_value
    /\ inv # initial_investment
    /\ Execute(cache, inv, selected_stock_filter, selected_pair)

\* the user picks another instrument filter; the pair selectbox then
\* returns one of its (new) options, if it is reached at all
ChangeFilter(filter) ==
    /\ status # "init"
    /\ filter \in Range(StockOptions(WithPair(cache)))
    /\ filter # selected_stock_filter
    /\ LET options == filtered_pairs(WithPair(cache), filter)
       IN \E choice \in (IF Len(options) = 0 THEN {NoSelection}
                         ELSE Range(options)) :
             Execute(cache, initial_investment, filter, choice)

\* the user picks another pair among the options shown
ChangePair(choice) ==
    /\ status \in {"ok", "NoTrades"}
    /\ choice \in Range(filtered_pairs(WithPair(cache), selected_stock_filter))
    /\ choice # selected_pair
    /\ Execute(cache, initial_investment, selected_stock_filter, choice)

Next ==
    \/ FirstRun
    \/ \E inv \in Investments : ChangeInvestment(inv)
    \/ \E filter \in {All} \cup Stocks : ChangeFilter(filter)
    \/ \E choice \in PairChoices : ChangePair(choice)

Spec == Init /\ [][Next]_vars

\* ------------------------------------------ the calculator on its own
\* Section 3 of the script as a function of (pair_data, investment), applied
\* to every selected frame and to amounts the number_input would not return.
CalcInvestments == Investments \cup {0, -500}

CalcFrames ==
    {Select(WithPair(load_data(f)), "A - C") : f \in CsvFiles} \ {EmptyFrame}

CalcInit ==
    /\ csv = EmptyFrame
    /\ cache = EmptyFrame
    /\ initial_investment \in CalcInvestments
    /\ selected_stock_filter = All
    /\ selected_pair = "A - C"
    /\ status = "input"
    /\ pair_data \in {f \in CalcFrames : Len(f.rows) > 0}
    /\ metrics = NoMetrics
    /\ display_df = EmptyFrame
    /\ rendered = {}

Compute ==
    /\ status = "input"
    /\ LET out == Calculations(pair_data, initial_investment)
       IN /\ status' = out.status
          /\ pair_data' = out.pair_data
          /\ metrics' = out.metrics
          /\ display_df' = out.display_df
          /\ rendered' = out.rendered
    /\ UNCHANGED <<csv, cache, initial_investment, selected_stock_filter,
                   selected_pair>>

CalcNext == Compute

CalcSpec == CalcInit /\ [][CalcNext]_vars

\* ------------------------------------------------- reference definitions
\* The statements below are phrased over the CSV as read, not over the
\* frames the script derives from it.

\* the pair identifier of a CSV row
PairOfCsvRow(r) ==
    IF "pair_id" \in DOMAIN r THEN r["pair_id"]
    ELSE IF r["Stock1"] = NaN \/ r["Stock2"] = NaN THEN NaN
         ELSE r["Stock1"] \o " - " \o r["Stock2"]

\* positions (1-based, file order) of the CSV rows of the selected pair
Matches ==
    {i \in 1..Len(csv.rows) :
        /\ selected_pair # NaN
        /\ PairOfCsvRow(csv.rows[i]) = selected_pair}

\* the k-th of them in file order
KthMatch(k) ==
    CHOOSE m \in Matches : Cardinality({j \in Matches : j < m}) = k - 1

\* Net Return of the selected rows, in file order
SourceReturns ==
    [k \in 1..Cardinality(Matches) |-> csv.rows[KthMatch(k)]["Net Return"]]

RECURSIVE PrefixSum(_, _)
PrefixSum(s, i) == IF i = 0 THEN 0 ELSE PrefixSum(s, i - 1) + s[i]

NumTrades == Len(pair_data.rows)

Cell(i, c) == pair_data.rows[i][c]

Produced == status = "ok"

\* ------------------------------------------------------------------ C1
\* C1: the cumulative return of the i-th enriched record is the plain sum of
\* the net returns of the first i selected trades, taken in file order.
C1_CumulativeIsRunningSum ==
    Produced =>
        /\ NumTrades = Len(SourceReturns)
        /\ NumTrades > 0
        /\ \A i \in 1..NumTrades :
              Cell(i, "Cumulative Return") = PrefixSum(SourceReturns, i)

\* a gain followed by a loss: sorting by value or compounding would differ
C1_Witness ==
    /\ Produced
    /\ NumTrades >= 2
    /\ Cell(1, "Net Return") = 5
    /\ Cell(2, "Net Return") = -2
    /\ Cell(2, "Cumulative Return") = 3

\* ------------------------------------------------------------------ C2
\* C2: every enriched record has equity = investment * (1 + cumulative
\* return); in units of 1/Scale, investment * (Scale + cumulative return).
C2_EquityFormula ==
    Produced =>
        \A i \in 1..NumTrades :
            Cell(i, "Equity") =
                initial_investment * (Scale + Cell(i, "Cumulative Return"))

C2_Witness ==
    /\ Produced
    /\ NumTrades >= 2
    /\ Cell(2, "Cumulative Return") # 0
    /\ Cell(2, "Cumulative Return") # Cell(2, "Net Return")

\* ------------------------------------------------------------------ C3
\* C3: total_return_pct equals the cumulative return of the last enriched
\* record, which is the sum of the successive cumulative-return deltas.
Delta(i) ==
    Cell(i, "Cumulative Return")
        - (IF i = 1 THEN 0 ELSE Cell(i - 1, "Cumulative Return"))

RECURSIVE SumOfDeltas(_)
SumOfDeltas(n) == IF n = 0 THEN 0 ELSE SumOfDeltas(n - 1) + Delta(n)

C3_TotalIsFinalAccumulator ==
    Produced =>
        /\ metrics.total_net_return_pct = Cell(NumTrades, "Cumulative Return")
        /\ metrics.total_net_return_pct = SumOfDeltas(NumTrades)

C3_Witness ==
    /\ Produced
    /\ NumTrades >= 2
    /\ Cell(1, "Net Return") # 0
    /\ metrics.total_net_return_pct # 0

\* ------------------------------------------------------------------ C4
\* C4: final_equity = investment + investment * total_return_pct and
\* total_profit_value = investment * total_return_pct (units of 1/Scale).
C4_FinalEquity ==
    Produced =>
        /\ metrics.total_profit_value =
              initial_investment * metrics.total_net_return_pct
        /\ metrics.final_equity =
              initial_investment * Scale
                  + initial_investment * metrics.total_net_return_pct

C4_Witness ==
    /\ Produced
    /\ metrics.total_net_return_pct < 0
    /\ initial_investment # value

\* ------------------------------------------------------------------ C5
\* C5: win_rate is the number of trades with net return > 0 over the number
\* of trades (a zero return is not a win; all losing gives 0, all winning
\* gives 1), and an execution that changes only the investment amount leaves
\* it as it was.
Winners == {i \in 1..NumTrades : SourceReturns[i] > 0}

C5_WinRateState ==
    Produced =>
        /\ metrics.win_rate.num = Cardinality(Winners)
        /\ metrics.win_rate.den = NumTrades
        /\ metrics.total_trades = NumTrades
        /\ (\A i \in 1..NumTrades : SourceReturns[i] < 0)
              => metrics.win_rate.num = 0
        /\ (\A i \in 1..NumTrades : SourceReturns[i] > 0)
              => metrics.win_rate.num = metrics.win_rate.den

C5_WinRateStep ==
    (/\ Produced
     /\ status' = "ok"
     /\ selected_pair' = selected_pair
     /\ initial_investment' # initial_investment)
        => metrics'.win_rate = metrics.win_rate

C5_WinRate == [](C5_WinRateState) /\ [][C5_WinRateStep]_vars

\* a zero-return trade next to a winning one, at a non-default amount
C5_Witness ==
    /\ Produced
    /\ initial_investment # value
    /\ \E i \in 1..NumTrades : Cell(i, "Net Return") = 0
    /\ \E i \in 1..NumTrades : Cell(i, "Net Return") > 0

\* ------------------------------------------------------------------ C6
\* C6: the selected frame holds exactly the CSV rows of the selected pair,
\* none missing and no others, in file order, labelled 0..n-1, and the trade
\* log labels them 1..n.
C6_SelectExact ==
    Produced =>
        /\ NumTrades = Cardinality(Matches)
        /\ \A k \in 1..NumTrades :
              LET src == csv.rows[KthMatch(k)]
              IN /\ Cell(k, "Date") = src["Exit Date"]
                 /\ Cell(k, "Stock1") = src["Stock1"]
                 /\ Cell(k, "Stock2") = src["Stock2"]
                 /\ Cell(k, "Net Return") = src["Net Return"]
                 /\ Cell(k, "Pair") = selected_pair
                 /\ pair_data.index[k] = k - 1
                 /\ display_df.index[k] = k
        /\ Len(pair_data.index) = NumTrades
        /\ Len(display_df.index) = NumTrades
        /\ Len(display_df.rows) = NumTrades

\* the selected rows are rows 1 and 3 of the file
C6_Witness ==
    /\ Produced
    /\ NumTrades = 2
    /\ Len(csv.rows) >= 3
    /\ Matches = {1, 3}

\* ------------------------------------------------------------------ C7
\* C7: when no trade matches the selected pair, or no pair matches the
\* instrument filter, the execution ends with the warning and produces no
\* enriched frame, metric, chart or log.
HasInstrument(r, instrument) ==
    /\ instrument # NaN
    /\ r["Stock1"] = instrument \/ r["Stock2"] = instrument

NoCandidatePair ==
    \/ Len(csv.rows) = 0
    \/ /\ selected_stock_filter # All
       /\ \A i \in 1..Len(csv.rows) :
             ~HasInstrument(csv.rows[i], selected_stock_filter)

CalculationOutputs == {"metrics", "equity_curve", "histogram", "trade_log"}

C7_EmptySelectionHalts ==
    (status # "init" /\ (NoCandidatePair \/ Matches = {})) =>
        /\ status \in {"NoPairs", "NoTrades"}
        /\ NoCandidatePair => status = "NoPairs"
        /\ pair_data = EmptyFrame
        /\ metrics = NoMetrics
        /\ display_df = EmptyFrame
        /\ rendered \cap CalculationOutputs = {}
        /\ rendered # {}

\* a pair option that matches no row: the identifier of a row with an empty
\* instrument cell
C7_Witness ==
    /\ status = "NoTrades"
    /\ selected_pair = NaN
    /\ Len(csv.rows) >= 2

\* ------------------------------------------------------------------ C8
\* C8: the calculator rejects a non-positive investment: for an amount <= 0
\* it ends with InvalidInvestment and produces no enriched frame and no
\* metric.
C8_RejectsNonPositive ==
    (status # "input" /\ initial_investment <= 0) =>
        /\ status = "InvalidInvestment"
        /\ metrics = NoMetrics
        /\ "Equity" \notin pair_data.columns

\* ------------------------------------------------------------------ C9
\* C9: after every execution the results are those of the calculation on
\* the rows of the currently selected pair with the current amount, and the
\* cached dataset is the dataset as loaded, without any derived column.
C9_Dataset == WithPair(load_data(csv))

C9_Recomputed ==
    status # "init" =>
        /\ cache = load_data(csv)
        /\ cache.columns \cap {"Cumulative Return", "Equity", "Trade Profit"}
              = {}
        /\ Produced =>
              LET out == Calculations(Select(C9_Dataset, selected_pair),
                                      initial_investment)
              IN /\ pair_data = out.pair_data
                 /\ metrics = out.metrics
                 /\ display_df = out.display_df
        /\ Produced =>
              \A i \in 1..NumTrades :
                 /\ Cell(i, "Trade Profit")
                       = initial_investment * SourceReturns[i]
                 /\ Cell(i, "Equity")
                       = initial_investment
                            * (Scale + PrefixSum(SourceReturns, i))

\* results for a pair and an amount that both differ from the first
\* execution's defaults
C9_Witness ==
    /\ Produced
    /\ initial_investment = min_value
    /\ selected_stock_filter # All
    /\ Matches # {} /\ 1 \notin Matches

\* ------------------------------------------------------------------ C10
\* C10 as claimed: with an instrument filter other than "All", every row that
\* reaches the calculation has that instrument as Stock1 or Stock2.
C10_AllRowsHaveInstrument ==
    (Produced /\ selected_stock_filter # All) =>
        \A i \in 1..NumTrades :
            HasInstrument(pair_data.rows[i], selected_stock_filter)

\* whether rows of the CSV with the same pair identifier have the same
\* instruments
PairDeterminesStocks ==
    \A i, j \in 1..Len(csv.rows) :
        PairOfCsvRow(csv.rows[i]) = PairOfCsvRow(csv.rows[j]) =>
            /\ csv.rows[i]["Stock1"] = csv.rows[j]["Stock1"]
            /\ csv.rows[i]["Stock2"] = csv.rows[j]["Stock2"]

\* C10 as amended: with an instrument filter other than "All", every row
\* that reaches the calculation carries the selected pair identifier, at
\* least one of them has the instrument as Stock1 or Stock2, and all of them
\* do when rows with the same pair identifier have the same instruments.
C10_Amended ==
    (Produced /\ selected_stock_filter # All) =>
        /\ \A i \in 1..NumTrades : Cell(i, "Pair") = selected_pair
        /\ \E i \in 1..NumTrades :
              HasInstrument(pair_data.rows[i], selected_stock_filter)
        /\ PairDeterminesStocks => C10_AllRowsHaveInstrument

C10_Witness ==
    /\ Produced
    /\ selected_stock_filter = "B"
    /\ NumTrades >= 2
    /\ PairDeterminesStocks
    /\ \E i \in 1..Len(csv.rows) : ~HasInstrument(csv.rows[i], "B")

=============================================================================
